---- MODULE Spec2Model ----
(***************************************************************************)
(* Simulateur de remuneration SASU / EURL: the calculation engine of       *)
(* src/app.py and the domain models of src/simulateur_remuneration/models. *)
(*                                                                         *)
(* The calculation engine is a set of pure functions over Python numbers.  *)
(* Amounts and rates are modelled as exact rationals [n |-> numerator,     *)
(* d |-> denominator] in lowest terms with d > 0, so that the decimal      *)
(* literals of the source (0.82, 0.172, ...) and the divisions by          *)
(* (1 + rate), by the fiscal shares and by the revenue are computed        *)
(* exactly.  Binary floating-point rounding of the Python build is not     *)
(* modelled: every equality below is an equality of exact values.          *)
(***************************************************************************)
EXTENDS Integers, Sequences, FiniteSets, TLC

VARIABLES
    params,        \* arguments handed to simuler_sasu / simuler_eurl
    appel_sasu,    \* <<>> or <<[locals, retour]>> : the call of simuler_sasu
    appel_eurl,    \* <<>> or <<[locals, retour]>> : the call of simuler_eurl
    appel_is,      \* <<>> or <<[benefice, retour]>> : a direct call of calcul_is
    appel_ir,      \* <<>> or <<[revenu_imposable, parts, retour]>> : calcul_ir
    appel_taux_marginal,  \* the calls of calcul_taux_marginal_ir made so far
    arguments,     \* arguments of the constructor call of a model object
    parametres,    \* <<>> or <<sp>> : the SimulationParameters object constructed
    erreur,        \* <<>> or <<e>> : the ValueError raised by the last constructor
    validation,    \* <<>> or <<[status, erreur]>> : a call of validate_for_status
    tranches,      \* the TaxBracket objects constructed so far, in order
    taux_fiscaux,  \* <<>> or <<t>> : the TaxRates object constructed
    configuration  \* <<>> or <<c>> : the FiscalConfiguration object constructed

\* the state of the calculation engine (src/app.py)
vars_app == <<params, appel_sasu, appel_eurl, appel_is, appel_ir, appel_taux_marginal>>

\* the state of the domain models (src/simulateur_remuneration/models)
vars_modeles == <<arguments, parametres, erreur, validation, tranches, taux_fiscaux, configuration>>

vars == <<vars_app, vars_modeles>>

----------------------------------------------------------------------------
(* Exact arithmetic on Python numbers                                      *)

Abs(x) == IF x < 0 THEN -x ELSE x

RECURSIVE Gcd(_, _)
Gcd(a, b) == IF b = 0 THEN a ELSE Gcd(b, a % b)

\* the number n/d (d # 0) in lowest terms
Q(n, d) ==
    LET g == Gcd(Abs(n), Abs(d))
        s == IF d < 0 THEN -1 ELSE 1
    IN  [n |-> s * (n \div g), d |-> s * (d \div g)]

\* an int literal
R(k) == [n |-> k, d |-> 1]

Zero == R(0)

\* a + b
Plus(a, b) ==
    LET l == (a.d \div Gcd(a.d, b.d)) * b.d
    IN  Q(a.n * (l \div a.d) + b.n * (l \div b.d), l)

\* a - b
Minus(a, b) == Plus(a, [n |-> -b.n, d |-> b.d])

\* a * b
Times(a, b) ==
    LET g1 == Gcd(Abs(a.n), b.d)
        g2 == Gcd(Abs(b.n), a.d)
    IN  IF a.n = 0 \/ b.n = 0 THEN Zero
        ELSE [n |-> (a.n \div g1) * (b.n \div g2), d |-> (a.d \div g2) * (b.d \div g1)]

\* the outcome of a division by zero (ZeroDivisionError): not a number
DivisionParZero == [n |-> 0, d |-> 0]

\* a / b
Quot(a, b) == IF b.n = 0 THEN DivisionParZero ELSE Times(a, Q(b.d, b.n))

\* a <= b
Leq(a, b) == Minus(a, b).n <= 0

\* a > b
Gt(a, b) == Minus(a, b).n > 0

\* min(a, b), max(a, b) as Python evaluates them (first argument on ties)
MinQ(a, b) == IF Gt(a, b) THEN b ELSE a

MaxQ(a, b) == IF Gt(b, a) THEN b ELSE a

----------------------------------------------------------------------------
(* CONSTANTES FISCALES 2024                                                *)

IS_TAUX_REDUIT == Q(15, 100)
IS_TAUX_NORMAL == Q(25, 100)
IS_SEUIL_REDUIT == 42500

FLAT_TAX == Q(30, 100)
PRELEVEMENT_SOCIAUX == Q(172, 1000)

CHARGES_SASU_TAUX == Q(82, 100)
CHARGES_EURL_TNS_TAUX == Q(45, 100)
CHARGES_DIVIDENDES_EURL == Q(45, 100)

\* a bracket (seuil, taux); inf marks the threshold float("inf")
Tranche(seuil, taux) == [seuil |-> R(seuil), inf |-> FALSE, taux |-> taux]

TrancheInf(taux) == [seuil |-> Zero, inf |-> TRUE, taux |-> taux]

TRANCHES_IR ==
    << Tranche(11294, Q(0, 100)),
       Tranche(28797, Q(11, 100)),
       Tranche(82341, Q(30, 100)),
       Tranche(177106, Q(41, 100)),
       TrancheInf(Q(45, 100)) >>

\* revenu_par_part <= seuil, where seuil may be float("inf")
LeqSeuil(x, t) == t.inf \/ Leq(x, t.seuil)

----------------------------------------------------------------------------
(* FONCTIONS DE CALCUL                                                     *)

calcul_is_sans_seuil(benefice) ==
    IF Leq(benefice, Zero) THEN Zero ELSE Times(benefice, IS_TAUX_REDUIT)

calcul_is(benefice) ==
    IF Leq(benefice, Zero) THEN Zero
    ELSE IF Leq(benefice, R(IS_SEUIL_REDUIT)) THEN Times(benefice, IS_TAUX_REDUIT)
    ELSE Plus(Times(R(IS_SEUIL_REDUIT), IS_TAUX_REDUIT),
              Times(Minus(benefice, R(IS_SEUIL_REDUIT)), IS_TAUX_NORMAL))

\* the for loop of calcul_ir over TRANCHES_IR[i..], dropping the tax
\* accumulated in the lower brackets ("=" written for "+=")
RECURSIVE boucle_ir_sans_cumul(_, _, _, _)
boucle_ir_sans_cumul(i, revenu_par_part, impot_par_part, tranche_precedente) ==
    IF i > Len(TRANCHES_IR) THEN impot_par_part
    ELSE LET t == TRANCHES_IR[i]
         IN  IF LeqSeuil(revenu_par_part, t)
             THEN Times(Minus(revenu_par_part, tranche_precedente), t.taux)
             ELSE boucle_ir_sans_cumul(i + 1, revenu_par_part,
                      Plus(impot_par_part,
                           Times(Minus(t.seuil, tranche_precedente), t.taux)),
                      t.seuil)

\* the for loop of calcul_ir over TRANCHES_IR[i..]
RECURSIVE boucle_ir(_, _, _, _)
boucle_ir(i, revenu_par_part, impot_par_part, tranche_precedente) ==
    IF i > Len(TRANCHES_IR) THEN impot_par_part
    ELSE LET t == TRANCHES_IR[i]
         IN  IF LeqSeuil(revenu_par_part, t)
             THEN Plus(impot_par_part,
                       Times(Minus(revenu_par_part, tranche_precedente), t.taux))
             ELSE boucle_ir(i + 1, revenu_par_part,
                      Plus(impot_par_part,
                           Times(Minus(t.seuil, tranche_precedente), t.taux)),
                      t.seuil)

\* calcul_ir walking the brackets with the whole income, not the income per share
calcul_ir_sans_quotient(revenu_imposable, parts) ==
    IF Leq(revenu_imposable, Zero) THEN Zero
    ELSE Times(boucle_ir(1, revenu_imposable, Zero, Zero), parts)

calcul_ir(revenu_imposable, parts) ==
    IF Leq(revenu_imposable, Zero) THEN Zero
    ELSE Times(boucle_ir(1, Quot(revenu_imposable, parts), Zero, Zero), parts)

\* the for loop of calcul_taux_marginal_ir over TRANCHES_IR[i..]
RECURSIVE boucle_taux_marginal(_, _)
boucle_taux_marginal(i, revenu_par_part) ==
    IF i > Len(TRANCHES_IR) THEN Q(45, 100)
    ELSE IF LeqSeuil(revenu_par_part, TRANCHES_IR[i]) THEN TRANCHES_IR[i].taux
    ELSE boucle_taux_marginal(i + 1, revenu_par_part)

\* the marginal rate of the whole income, not of the income per share
calcul_taux_marginal_ir_sans_quotient(revenu_imposable, parts) ==
    boucle_taux_marginal(1, revenu_imposable)

\* Retourne le taux marginal d'imposition
calcul_taux_marginal_ir(revenu_imposable, parts) ==
    boucle_taux_marginal(1, Quot(revenu_imposable, parts))

----------------------------------------------------------------------------
(* simuler_sasu                                                            *)

\* remuneration stage with the clamp charging contributions on the whole
\* cost instead of on what is left after the net pay
remuneration_sasu_charges_sur_cout(remuneration_nette_cible, benefice_avant_remuneration) ==
    LET cout == Times(remuneration_nette_cible, Plus(R(1), CHARGES_SASU_TAUX))
    IN  IF Gt(cout, benefice_avant_remuneration)
        THEN [cout_total_remuneration |-> benefice_avant_remuneration,
              remuneration_nette |->
                  Quot(benefice_avant_remuneration, Plus(R(1), CHARGES_SASU_TAUX)),
              charges_sociales |->
                  Times(benefice_avant_remuneration, CHARGES_SASU_TAUX)]
        ELSE [cout_total_remuneration |-> cout,
              remuneration_nette |-> remuneration_nette_cible,
              charges_sociales |-> Times(remuneration_nette_cible, CHARGES_SASU_TAUX)]

\* remuneration stage without the limit to the available profit
remuneration_sasu_sans_limite(remuneration_nette_cible, benefice_avant_remuneration) ==
    [cout_total_remuneration |->
         Times(remuneration_nette_cible, Plus(R(1), CHARGES_SASU_TAUX)),
     remuneration_nette |-> remuneration_nette_cible,
     charges_sociales |-> Times(remuneration_nette_cible, CHARGES_SASU_TAUX)]

\* Calcul de la remuneration (assimile salarie), limitee au benefice disponible
remuneration_sasu(remuneration_nette_cible, benefice_avant_remuneration) ==
    LET cout == Times(remuneration_nette_cible, Plus(R(1), CHARGES_SASU_TAUX))
        nette_limitee == Quot(benefice_avant_remuneration, Plus(R(1), CHARGES_SASU_TAUX))
    IN  IF Gt(cout, benefice_avant_remuneration)
        THEN [cout_total_remuneration |-> benefice_avant_remuneration,
              remuneration_nette |-> nette_limitee,
              charges_sociales |-> Minus(benefice_avant_remuneration, nette_limitee)]
        ELSE [cout_total_remuneration |-> cout,
              remuneration_nette |-> remuneration_nette_cible,
              charges_sociales |-> Times(remuneration_nette_cible, CHARGES_SASU_TAUX)]

PasDeDividendes ==
    [dividendes_bruts |-> Zero, charges_dividendes |-> Zero,
     dividendes_imposables |-> Zero, impot_dividendes |-> Zero,
     dividendes_nets |-> Zero]

\* dividend stage distributing whatever the flag says
dividendes_sasu_sans_drapeau(distribuer_dividendes, resultat_net_societe, option_bareme_ir) ==
    IF Gt(resultat_net_societe, Zero)
    THEN LET impot == Times(resultat_net_societe,
                            IF option_bareme_ir THEN PRELEVEMENT_SOCIAUX ELSE FLAT_TAX)
         IN  [dividendes_bruts |-> resultat_net_societe,
              charges_dividendes |-> Zero,
              dividendes_imposables |->
                  IF option_bareme_ir THEN Times(resultat_net_societe, Q(6, 10)) ELSE Zero,
              impot_dividendes |-> impot,
              dividendes_nets |-> Minus(resultat_net_societe, impot)]
    ELSE PasDeDividendes

\* dividend stage applying the flat tax whatever the option
dividendes_sasu_pfu_toujours(distribuer_dividendes, resultat_net_societe, option_bareme_ir) ==
    IF distribuer_dividendes /\ Gt(resultat_net_societe, Zero)
    THEN LET impot == Times(resultat_net_societe, FLAT_TAX)
         IN  [dividendes_bruts |-> resultat_net_societe,
              charges_dividendes |-> Zero,
              dividendes_imposables |-> Zero,
              impot_dividendes |-> impot,
              dividendes_nets |-> Minus(resultat_net_societe, impot)]
    ELSE PasDeDividendes

\* Dividendes (SASU)
dividendes_sasu(distribuer_dividendes, resultat_net_societe, option_bareme_ir) ==
    IF distribuer_dividendes /\ Gt(resultat_net_societe, Zero)
    THEN LET dividendes_bruts == resultat_net_societe
             impot_dividendes ==
                 IF option_bareme_ir
                 THEN Times(dividendes_bruts, PRELEVEMENT_SOCIAUX)
                 ELSE Times(dividendes_bruts, FLAT_TAX)
         IN  [dividendes_bruts |-> dividendes_bruts,
              charges_dividendes |-> Zero,
              dividendes_imposables |->
                  IF option_bareme_ir THEN Times(dividendes_bruts, Q(6, 10)) ELSE Zero,
              impot_dividendes |-> impot_dividendes,
              dividendes_nets |-> Minus(dividendes_bruts, impot_dividendes)]
    ELSE PasDeDividendes

ABATTEMENT_PLAFOND == 14171

\* Calcul IR sur la remuneration: abattement de 10% plafonne, base IR
\* the taxable base without the 10% deduction under the progressive option
revenu_imposable_sans_abattement_au_bareme(remuneration_nette, dividendes_imposables, distribuer_dividendes, option_bareme_ir) ==
    LET abattement_10 ==
            IF option_bareme_ir THEN Zero
            ELSE MinQ(Times(remuneration_nette, Q(10, 100)), R(ABATTEMENT_PLAFOND))
        revenu_imposable_salaire == Minus(remuneration_nette, abattement_10)
    IN  [abattement_10 |-> abattement_10,
         revenu_imposable_salaire |-> revenu_imposable_salaire,
         revenu_imposable_ir |->
             IF option_bareme_ir /\ distribuer_dividendes
             THEN Plus(revenu_imposable_salaire, dividendes_imposables)
             ELSE revenu_imposable_salaire]

\* the taxable base with a 10% deduction that has no ceiling
revenu_imposable_sans_plafond(remuneration_nette, dividendes_imposables, distribuer_dividendes, option_bareme_ir) ==
    LET abattement_10 == Times(remuneration_nette, Q(10, 100))
        revenu_imposable_salaire == Minus(remuneration_nette, abattement_10)
    IN  [abattement_10 |-> abattement_10,
         revenu_imposable_salaire |-> revenu_imposable_salaire,
         revenu_imposable_ir |->
             IF option_bareme_ir /\ distribuer_dividendes
             THEN Plus(revenu_imposable_salaire, dividendes_imposables)
             ELSE revenu_imposable_salaire]

revenu_imposable(remuneration_nette, dividendes_imposables, distribuer_dividendes, option_bareme_ir) ==
    LET abattement_10 == MinQ(Times(remuneration_nette, Q(10, 100)), R(ABATTEMENT_PLAFOND))
        revenu_imposable_salaire == Minus(remuneration_nette, abattement_10)
    IN  [abattement_10 |-> abattement_10,
         revenu_imposable_salaire |-> revenu_imposable_salaire,
         revenu_imposable_ir |->
             IF option_bareme_ir /\ distribuer_dividendes
             THEN Plus(revenu_imposable_salaire, dividendes_imposables)
             ELSE revenu_imposable_salaire]

\* benefice_avant_remuneration and the remuneration stage rem, then
\* benefice_apres_remuneration
ApresRemuneration(benefice_avant_remuneration, rem) ==
    [benefice_avant_remuneration |-> benefice_avant_remuneration,
     cout_total_remuneration |-> rem.cout_total_remuneration,
     charges_sociales |-> rem.charges_sociales,
     remuneration_nette |-> rem.remuneration_nette,
     benefice_apres_remuneration |->
         Minus(benefice_avant_remuneration, rem.cout_total_remuneration)]

\* simuler_sasu up to benefice_apres_remuneration
etape_remuneration_sasu(p) ==
    ApresRemuneration(Minus(p.ca_ht, p.charges_exploitation),
                      remuneration_sasu(p.remuneration_nette_cible,
                                        Minus(p.ca_ht, p.charges_exploitation)))

\* corporate-tax stage that forgets to take the tax off the result
etape_is_sans_deduction(l) ==
    l @@ [is_societe |-> calcul_is(l.benefice_apres_remuneration),
          resultat_net_societe |-> l.benefice_apres_remuneration]

\* IS sur le benefice restant, given the locals l computed so far
etape_is(l) ==
    LET is_societe == calcul_is(l.benefice_apres_remuneration)
    IN  l @@ [is_societe |-> is_societe,
              resultat_net_societe |-> Minus(l.benefice_apres_remuneration, is_societe)]

\* Dividendes (SASU), given the locals l computed so far
etape_dividendes_sasu(p, l) ==
    l @@ dividendes_sasu(p.distribuer_dividendes, l.resultat_net_societe,
                         p.option_bareme_ir)

\* Calcul IR and net disponible, given the locals l computed so far
etape_ir(p, l) ==
    LET rev == revenu_imposable(l.remuneration_nette, l.dividendes_imposables,
                                p.distribuer_dividendes, p.option_bareme_ir)
        ir_total == calcul_ir(rev.revenu_imposable_ir, p.parts_fiscales)
    IN  l @@ rev @@
        [ir_total |-> ir_total,
         net_disponible |->
             Minus(Plus(l.remuneration_nette, l.dividendes_nets), ir_total)]

\* the levy rate expressed in percent
TauxPrelevement_en_pourcent(p, l, total_preleve) ==
    l @@ [total_preleve |-> total_preleve,
          taux_prelevement |->
              IF Gt(p.ca_ht, Zero)
              THEN Times(Quot(total_preleve, p.ca_ht), R(100)) ELSE Zero]

\* the levy rate without the guard on ca_ht
TauxPrelevement_sans_garde(p, l, total_preleve) ==
    l @@ [total_preleve |-> total_preleve,
          taux_prelevement |-> Quot(total_preleve, p.ca_ht)]

\* total_preleve / ca_ht if ca_ht > 0 else 0
TauxPrelevement(p, l, total_preleve) ==
    l @@ [total_preleve |-> total_preleve,
          taux_prelevement |->
              IF Gt(p.ca_ht, Zero) THEN Quot(total_preleve, p.ca_ht) ELSE Zero]

\* Taux de prelevement global (SASU), given the locals l computed so far
etape_prelevement_sasu(p, l) ==
    TauxPrelevement(p, l, Plus(Plus(l.charges_sociales, l.is_societe),
                               Plus(l.impot_dividendes, l.ir_total)))

\* the local variables of simuler_sasu at its return statement
locals_sasu(p) ==
    etape_prelevement_sasu(p,
        etape_ir(p, etape_dividendes_sasu(p, etape_is(etape_remuneration_sasu(p)))))

\* the ResultatSimulation built from the arguments p and the locals l
ResultatSimulation(statut, p, l, remuneration_brute) ==
    [statut |-> statut,
     ca_ht |-> p.ca_ht,
     charges_exploitation |-> p.charges_exploitation,
     benefice_avant_remuneration |-> l.benefice_avant_remuneration,
     remuneration_brute |-> remuneration_brute,
     charges_sociales |-> l.charges_sociales,
     remuneration_nette |-> l.remuneration_nette,
     benefice_apres_remuneration |-> l.benefice_apres_remuneration,
     is_societe |-> l.is_societe,
     resultat_net_societe |-> l.resultat_net_societe,
     dividendes_bruts |-> l.dividendes_bruts,
     charges_dividendes |-> l.charges_dividendes,
     impot_dividendes |-> l.impot_dividendes,
     dividendes_nets |-> l.dividendes_nets,
     revenu_imposable_ir |-> l.revenu_imposable_ir,
     ir_total |-> l.ir_total,
     net_disponible |-> l.net_disponible,
     taux_prelevement_global |-> l.taux_prelevement]

\* the return statement of simuler_sasu, given its locals l
retour_sasu(p, l) ==
    ResultatSimulation("SASU", p, l,
        Plus(l.remuneration_nette, Times(l.charges_sociales, Q(55, 100))))

\* the ResultatSimulation returned by simuler_sasu
simuler_sasu(p) == retour_sasu(p, locals_sasu(p))

----------------------------------------------------------------------------
(* simuler_eurl                                                            *)

\* remuneration stage charging the SASU rate on the net pay
remuneration_eurl_taux_sasu(remuneration_nette_cible, benefice_avant_remuneration) ==
    remuneration_sasu(remuneration_nette_cible, benefice_avant_remuneration)

\* Calcul de la remuneration (TNS), limitee au benefice disponible
remuneration_eurl(remuneration_nette_cible, benefice_avant_remuneration) ==
    LET cout == Times(remuneration_nette_cible, Plus(R(1), CHARGES_EURL_TNS_TAUX))
        nette_limitee == Quot(benefice_avant_remuneration, Plus(R(1), CHARGES_EURL_TNS_TAUX))
    IN  IF Gt(cout, benefice_avant_remuneration)
        THEN [cout_total_remuneration |-> benefice_avant_remuneration,
              remuneration_nette |-> nette_limitee,
              charges_sociales |-> Minus(benefice_avant_remuneration, nette_limitee)]
        ELSE [cout_total_remuneration |-> cout,
              remuneration_nette |-> remuneration_nette_cible,
              charges_sociales |-> Times(remuneration_nette_cible, CHARGES_EURL_TNS_TAUX)]

\* the taxed part of the dividend stage, given the amount the social
\* contribution is charged on and the amount personal taxation applies to
DividendesEurl(dividendes_bruts, dividendes_soumis_charges, taxe_sur_brut, option_bareme_ir) ==
    LET charges_dividendes == Times(dividendes_soumis_charges, CHARGES_DIVIDENDES_EURL)
        dividendes_apres_charges == Minus(dividendes_bruts, charges_dividendes)
        assiette == IF taxe_sur_brut THEN dividendes_bruts ELSE dividendes_apres_charges
        impot_dividendes ==
            IF option_bareme_ir
            THEN Times(assiette, PRELEVEMENT_SOCIAUX)
            ELSE Times(assiette, FLAT_TAX)
    IN  [dividendes_bruts |-> dividendes_bruts,
         charges_dividendes |-> charges_dividendes,
         dividendes_imposables |->
             IF option_bareme_ir THEN Times(assiette, Q(6, 10)) ELSE Zero,
         impot_dividendes |-> impot_dividendes,
         dividendes_nets |-> Minus(dividendes_apres_charges, impot_dividendes)]

\* dividend stage charging the contribution without the max(0, ...)
dividendes_eurl_sans_max(distribuer_dividendes, resultat_net_societe, capital_social, option_bareme_ir) ==
    IF distribuer_dividendes /\ Gt(resultat_net_societe, Zero)
    THEN DividendesEurl(resultat_net_societe,
                        Minus(resultat_net_societe, Times(capital_social, Q(10, 100))),
                        FALSE, option_bareme_ir)
    ELSE PasDeDividendes

\* dividend stage taxing the gross dividends
dividendes_eurl_taxe_sur_brut(distribuer_dividendes, resultat_net_societe, capital_social, option_bareme_ir) ==
    IF distribuer_dividendes /\ Gt(resultat_net_societe, Zero)
    THEN DividendesEurl(resultat_net_societe,
                        MaxQ(Zero, Minus(resultat_net_societe,
                                         Times(capital_social, Q(10, 100)))),
                        TRUE, option_bareme_ir)
    ELSE PasDeDividendes

\* Dividendes avec charges sociales sur la partie > 10% du capital
dividendes_eurl(distribuer_dividendes, resultat_net_societe, capital_social, option_bareme_ir) ==
    IF distribuer_dividendes /\ Gt(resultat_net_societe, Zero)
    THEN LET dividendes_bruts == resultat_net_societe
             seuil_10_pourcent == Times(capital_social, Q(10, 100))
             dividendes_soumis_charges ==
                 MaxQ(Zero, Minus(dividendes_bruts, seuil_10_pourcent))
         IN  DividendesEurl(dividendes_bruts, dividendes_soumis_charges,
                            FALSE, option_bareme_ir)
    ELSE PasDeDividendes

\* simuler_eurl up to benefice_apres_remuneration
etape_remuneration_eurl(p) ==
    ApresRemuneration(Minus(p.ca_ht, p.charges_exploitation),
                      remuneration_eurl(p.remuneration_nette_cible,
                                        Minus(p.ca_ht, p.charges_exploitation)))

\* Dividendes (EURL), given the locals l computed so far
etape_dividendes_eurl(p, l) ==
    l @@ dividendes_eurl(p.distribuer_dividendes, l.resultat_net_societe,
                         p.capital_social, p.option_bareme_ir)

\* Taux de prelevement global (EURL), given the locals l computed so far
etape_prelevement_eurl(p, l) ==
    TauxPrelevement(p, l,
        Plus(Plus(Plus(l.charges_sociales, l.charges_dividendes), l.is_societe),
             Plus(l.impot_dividendes, l.ir_total)))

\* the local variables of simuler_eurl at its return statement
locals_eurl(p) ==
    etape_prelevement_eurl(p,
        etape_ir(p, etape_dividendes_eurl(p, etape_is(etape_remuneration_eurl(p)))))

\* the return statement of simuler_eurl, given its locals l
retour_eurl(p, l) ==
    ResultatSimulation("EURL", p, l, Times(l.remuneration_nette, Q(131, 100)))

\* the ResultatSimulation returned by simuler_eurl
simuler_eurl(p) == retour_eurl(p, locals_eurl(p))

----------------------------------------------------------------------------
(* models/validators.py, models/simulation.py                              *)

\* the outcome of a validation: << >> (it returns) or the ValueError raised
Erreur(champ, texte, valeur) ==
    << [message |-> <<champ, texte>>, valeur |-> valeur] >>

\* the first ValueError raised by validations run in order
RECURSIVE PremiereErreur(_)
PremiereErreur(es) ==
    IF es = << >> THEN << >>
    ELSE IF Head(es) # << >> THEN Head(es)
    ELSE PremiereErreur(Tail(es))

\* Decimal("inf")
Infini == [n |-> 1, d |-> 0]

\* a < b on Decimal values, either of which may be Decimal("inf")
DecimalLt(a, b) ==
    IF a = Infini THEN FALSE ELSE IF b = Infini THEN TRUE ELSE Gt(b, a)

\* a <= b on Decimal values
DecimalLeq(a, b) == a = b \/ DecimalLt(a, b)

\* MonetaryValueValidator(field_name, allow_zero).validate(value)
MonetaryValueValidator(field_name, allow_zero, value) ==
    IF DecimalLt(value, Zero) THEN Erreur(field_name, "ne peut pas etre negatif", value)
    ELSE IF ~allow_zero /\ value = Zero
         THEN Erreur(field_name, "doit etre strictement positif", value)
    ELSE << >>

\* RateValidator(field_name, min_rate, max_rate).validate(value); the message
\* names the two bounds
RateValidator(field_name, min_rate, max_rate, value) ==
    IF Gt(min_rate, value) \/ Gt(value, max_rate)
    THEN Erreur(field_name, <<"doit etre entre", min_rate, max_rate>>, value)
    ELSE << >>

\* TaxPartsValidator().validate(value)
TaxPartsValidator(value) ==
    IF Gt(Q(5, 10), value) \/ Gt(value, Q(60, 10))
    THEN Erreur("Le nombre de parts fiscales", "doit etre entre 0.5 et 6.0", value)
    ELSE << >>

validate_revenue_expenses_coherence(revenue, expenses) ==
    IF Gt(expenses, revenue)
    THEN Erreur("Les charges d'exploitation",
                "ne peuvent pas depasser le chiffre d'affaires", expenses)
    ELSE << >>

validate_salary_revenue_coherence(annual_salary, revenue) ==
    IF Gt(annual_salary, revenue)
    THEN Erreur("La remuneration annuelle cible",
                "ne peut pas depasser le chiffre d'affaires", annual_salary)
    ELSE << >>

\* dividend feasibility estimated with the net compensation alone
validate_dividend_feasibility_sans_marge(revenue, expenses, annual_salary, distribute_dividends) ==
    LET remaining_profit == Minus(Minus(revenue, expenses), annual_salary)
    IN  IF ~distribute_dividends THEN << >>
        ELSE IF Gt(Zero, remaining_profit)
             THEN Erreur("Impossible de distribuer des dividendes",
                         "benefice estime negatif apres remuneration", remaining_profit)
        ELSE << >>

\* dividend feasibility estimated with the SASU cost of the compensation
validate_dividend_feasibility_cout_sasu(revenue, expenses, annual_salary, distribute_dividends) ==
    LET estimated_salary_cost == Times(annual_salary, Q(182, 100))
        remaining_profit == Minus(Minus(revenue, expenses), estimated_salary_cost)
    IN  IF ~distribute_dividends THEN << >>
        ELSE IF Gt(Zero, remaining_profit)
             THEN Erreur("Impossible de distribuer des dividendes",
                         "benefice estime negatif apres remuneration", remaining_profit)
        ELSE << >>

validate_dividend_feasibility(revenue, expenses, annual_salary, distribute_dividends) ==
    LET estimated_salary_cost == Times(annual_salary, Q(15, 10))
        remaining_profit == Minus(Minus(revenue, expenses), estimated_salary_cost)
    IN  IF ~distribute_dividends THEN << >>
        ELSE IF Gt(Zero, remaining_profit)
             THEN Erreur("Impossible de distribuer des dividendes",
                         "benefice estime negatif apres remuneration", remaining_profit)
        ELSE << >>

\* SimulationParameters.annual_target_salary
annual_target_salary(sp) == Times(sp.target_net_salary, R(12))

\* SimulationParameters._validate_monetary_values
validate_monetary_values(sp) ==
    PremiereErreur(<<
        MonetaryValueValidator("Le chiffre d'affaires", TRUE, sp.annual_revenue),
        MonetaryValueValidator("Les charges d'exploitation", TRUE, sp.operating_expenses),
        MonetaryValueValidator("La remuneration cible", TRUE, sp.target_net_salary),
        MonetaryValueValidator("Le capital social", FALSE, sp.share_capital) >>)

\* SimulationParameters._validate_business_logic
validate_business_logic(sp) ==
    PremiereErreur(<<
        validate_revenue_expenses_coherence(sp.annual_revenue, sp.operating_expenses),
        validate_salary_revenue_coherence(annual_target_salary(sp), sp.annual_revenue),
        validate_dividend_feasibility(sp.annual_revenue, sp.operating_expenses,
                                      annual_target_salary(sp),
                                      sp.distribute_dividends) >>)

\* __post_init__ skipping the business rules
post_init_sans_regles_metier(sp) ==
    PremiereErreur(<< validate_monetary_values(sp), TaxPartsValidator(sp.tax_parts) >>)

\* __post_init__ running the business rules before the sign and range checks
post_init_regles_metier_d_abord(sp) ==
    PremiereErreur(<< validate_business_logic(sp),
                      validate_monetary_values(sp),
                      TaxPartsValidator(sp.tax_parts) >>)

\* SimulationParameters.__post_init__: << >> when the object is constructed,
\* the ValueError raised otherwise
post_init(sp) ==
    PremiereErreur(<< validate_monetary_values(sp),
                      TaxPartsValidator(sp.tax_parts),
                      validate_business_logic(sp) >>)

\* SASUValidator().validate(params): no constraint
SASUValidator(sp) == << >>

\* EURLValidator.min_capital
MIN_CAPITAL_EURL == 100

\* EURLValidator accepting any capital
EURLValidator_sans_minimum(min_capital, sp) == SASUValidator(sp)

\* EURLValidator(min_capital).validate(params)
EURLValidator(min_capital, sp) ==
    IF Gt(min_capital, sp.share_capital)
    THEN Erreur("Capital social", "trop faible pour EURL", sp.share_capital)
    ELSE << >>

\* StatusValidatorFactory._validators
Validateurs == {"SASU", "EURL"}

\* StatusValidatorFactory.get_validator(status).validate(sp), that is
\* SimulationParameters.validate_for_status(status)
validate_for_status(sp, status) ==
    IF status \notin Validateurs
    THEN Erreur("Statut invalide", "Attendu: SASU ou EURL", status)
    ELSE IF status = "SASU" THEN SASUValidator(sp)
    ELSE EURLValidator(R(MIN_CAPITAL_EURL), sp)

----------------------------------------------------------------------------
(* models/tax_models.py                                                    *)

\* TaxBracket.__post_init__: the rate is validated before the threshold
TaxBracket_post_init(threshold, rate) ==
    PremiereErreur(<<
        RateValidator("Le taux d'imposition", Zero, R(1), rate),
        MonetaryValueValidator("Le seuil de la tranche", TRUE, threshold) >>)

\* a TaxBracket object
TaxBracket(threshold, rate) == [threshold |-> threshold, rate |-> rate]

\* TaxRates._validate_year
validate_year(year) ==
    IF year < 2020 \/ year > 2030
    THEN Erreur("Annee fiscale", "invalide", year)
    ELSE << >>

\* one turn of the loop of TaxRates._validate_rates: the error of the
\* RateValidator is raised again under the name of the rate
validate_rate(rate_name, rate_value) ==
    IF RateValidator("Taux fiscal", Zero, R(2), rate_value) # << >>
    THEN Erreur(rate_name, "doit etre entre 0 et 2", rate_value)
    ELSE << >>

\* TaxRates._validate_rates
validate_rates(t) ==
    PremiereErreur(<<
        validate_rate("corporate_tax_reduced_rate", t.corporate_tax_reduced_rate),
        validate_rate("corporate_tax_normal_rate", t.corporate_tax_normal_rate),
        validate_rate("flat_tax_rate", t.flat_tax_rate),
        validate_rate("social_charges_rate", t.social_charges_rate),
        validate_rate("sasu_social_charges_rate", t.sasu_social_charges_rate),
        validate_rate("eurl_tns_social_charges_rate", t.eurl_tns_social_charges_rate),
        validate_rate("eurl_dividend_social_charges_rate",
                      t.eurl_dividend_social_charges_rate) >>)

\* TaxRates._validate_corporate_tax_threshold
validate_corporate_tax_threshold(t) ==
    MonetaryValueValidator("Le seuil IS", FALSE, t.corporate_tax_threshold)

\* TaxRates._validate_income_tax_brackets
validate_income_tax_brackets(t) ==
    IF t.income_tax_brackets = << >>
    THEN Erreur("Au moins une tranche IR", "doit etre definie", << >>)
    ELSE IF \E i \in 2..Len(t.income_tax_brackets) :
                DecimalLeq(t.income_tax_brackets[i].threshold,
                           t.income_tax_brackets[i - 1].threshold)
    THEN Erreur("Les tranches IR", "doivent etre ordonnees par seuil croissant",
                t.income_tax_brackets)
    ELSE << >>

\* TaxRates.__post_init__
TaxRates_post_init(t) ==
    PremiereErreur(<< validate_year(t.year),
                      validate_rates(t),
                      validate_corporate_tax_threshold(t),
                      validate_income_tax_brackets(t) >>)

\* the TaxRates object built by get_2024_tax_rates()
get_2024_tax_rates ==
    [year |-> 2024,
     income_tax_brackets |->
         << TaxBracket(R(11294), Q(0, 100)),
            TaxBracket(R(28797), Q(11, 100)),
            TaxBracket(R(82341), Q(30, 100)),
            TaxBracket(R(177106), Q(41, 100)),
            TaxBracket(Infini, Q(45, 100)) >>,
     corporate_tax_reduced_rate |-> Q(15, 100),
     corporate_tax_normal_rate |-> Q(25, 100),
     corporate_tax_threshold |-> R(42500),
     flat_tax_rate |-> Q(30, 100),
     social_charges_rate |-> Q(172, 1000),
     sasu_social_charges_rate |-> Q(82, 100),
     eurl_tns_social_charges_rate |-> Q(45, 100),
     eurl_dividend_social_charges_rate |-> Q(45, 100)]

\* the ValueError raised while get_2024_tax_rates() constructs its brackets
\* and its table, << >> if none
erreur_2024 ==
    PremiereErreur(
        [i \in 1..Len(get_2024_tax_rates.income_tax_brackets) |->
             TaxBracket_post_init(get_2024_tax_rates.income_tax_brackets[i].threshold,
                                  get_2024_tax_rates.income_tax_brackets[i].rate)]
        \o << TaxRates_post_init(get_2024_tax_rates) >>)

\* the default of FiscalConfiguration.year
ANNEE_PAR_DEFAUT == 2024

\* a FiscalConfiguration object
FiscalConfiguration(year, tax_rates) == [year |-> year, tax_rates |-> tax_rates]

\* for_year handing the 2024 table out for any year
for_year_toutes_annees(year) ==
    [configuration |-> << FiscalConfiguration(year, get_2024_tax_rates) >>,
     erreur |-> << >>]

\* FiscalConfiguration.for_year(year): the object returned, or the error raised
for_year(year) ==
    IF year = 2024
    THEN [configuration |->
              IF erreur_2024 = << >>
              THEN << FiscalConfiguration(year, get_2024_tax_rates) >> ELSE << >>,
          erreur |-> erreur_2024]
    ELSE [configuration |-> << >>,
          erreur |-> Erreur("Les taux fiscaux pour l'annee",
                            "ne sont pas disponibles", year)]

----------------------------------------------------------------------------
(* Inputs                                                                  *)

\* the first n values of a list of inputs
Premiers(valeurs, n) ==
    {valeurs[i] : i \in 1..(IF n < Len(valeurs) THEN n ELSE Len(valeurs))}

\* how many values of each list are explored
NbCa == 5
NbCharges == 3
NbCible == 5
NbCapital == 2
NbParts == 2
NbBenefice == 9
NbRevenu == 12
NbPartsIr == 5

\* ca_ht: annual revenue (widget range 0..1000000)
CaValeurs == << R(100000), R(50000), R(40000), R(0), R(300000), R(120000) >>

\* charges_exploitation (widget range 0..500000; may exceed ca_ht)
ChargesValeurs == << R(10000), R(40000), R(0), R(20000) >>

\* remuneration_nette_cible: annual target (widget range 0..15000 a month)
CibleValeurs == << R(48000), R(35000), R(24000), R(0), R(150000), R(12000) >>

\* capital_social (widget range 1..100000)
CapitalValeurs == << R(1000), R(50000), R(500) >>

\* parts_fiscales
PartsValeurs == << R(1), R(2), Q(3, 2) >>

\* benefice handed to calcul_is
BeneficeValeurs ==
    << R(-10000), R(0), R(1), R(2640), R(42500), R(42501), R(100000), Q(-1, 2),
       Q(84999, 2), R(200000) >>

\* revenu_imposable handed to calcul_ir
RevenuValeurs ==
    << R(-5000), R(0), R(1), R(11294), R(11295), R(20000), R(28797), R(43200),
       R(82341), R(100000), R(177106), R(200000), Q(56471, 2) >>

\* parts handed to calcul_ir
PartsIrValeurs == << R(1), Q(3, 2), R(2), Q(5, 2), Q(1, 2), R(4) >>

Params ==
    [ca_ht : Premiers(CaValeurs, NbCa),
     charges_exploitation : Premiers(ChargesValeurs, NbCharges),
     remuneration_nette_cible : Premiers(CibleValeurs, NbCible),
     distribuer_dividendes : BOOLEAN,
     parts_fiscales : Premiers(PartsValeurs, NbParts),
     capital_social : Premiers(CapitalValeurs, NbCapital),
     option_bareme_ir : BOOLEAN]

ParamsDefaut ==
    [ca_ht |-> R(100000), charges_exploitation |-> R(10000),
     remuneration_nette_cible |-> R(48000), distribuer_dividendes |-> TRUE,
     parts_fiscales |-> R(1), capital_social |-> R(1000),
     option_bareme_ir |-> FALSE]

NbRevenue == 4
NbExpenses == 4
NbTarget == 3
NbTaxParts == 3
NbShareCapital == 4
NbStatut == 3

RevenueValeurs == <<R(100000), R(50000), R(-1000), R(48000), R(0)>>
ExpensesValeurs == <<R(10000), R(50000), R(60000), R(-500), R(0)>>
\* monthly targets
TargetValeurs == <<R(4000), R(5000), R(-100), R(0)>>
TaxPartsValeurs == <<R(1), Q(1, 4), R(7), Q(1, 2), R(6)>>
ShareCapitalValeurs == <<R(1000), R(0), R(50), R(-10), R(100)>>
StatutValeurs == <<"SASU", "EURL", "SARL", "sasu">>

\* the arguments of the constructor of SimulationParameters
Arguments ==
    [annual_revenue : Premiers(RevenueValeurs, NbRevenue),
     operating_expenses : Premiers(ExpensesValeurs, NbExpenses),
     target_net_salary : Premiers(TargetValeurs, NbTarget),
     distribute_dividends : BOOLEAN,
     tax_parts : Premiers(TaxPartsValeurs, NbTaxParts),
     use_progressive_tax : {FALSE},
     share_capital : Premiers(ShareCapitalValeurs, NbShareCapital)]

ArgumentsDefaut ==
    [annual_revenue |-> R(100000), operating_expenses |-> R(10000),
     target_net_salary |-> R(4000), distribute_dividends |-> TRUE,
     tax_parts |-> R(1), use_progressive_tax |-> FALSE,
     share_capital |-> R(1000)]

MaxTranches == 2
NbSeuil == 3
NbTauxTranche == 2
NbAnnee == 3
NbFlatTax == 2
NbSeuilIs == 2

SeuilValeurs == <<R(1000), R(-1000), Infini, R(5000)>>
TauxTrancheValeurs == <<Q(1, 10), Q(3, 2), Q(-1, 10)>>
AnneeValeurs == <<2024, 1990, 2025, 2023>>
FlatTaxValeurs == <<Q(30, 100), Q(5, 2), Q(2, 1)>>
SeuilIsValeurs == <<R(42500), R(0), R(-1)>>

\* the arguments of the constructor of TaxRates: the brackets constructed so
\* far and the 2024 values for the rates that are not drawn
ArgumentsTaux(year, brackets, flat_tax_rate, corporate_tax_threshold) ==
    [get_2024_tax_rates EXCEPT !.year = year,
                               !.income_tax_brackets = brackets,
                               !.flat_tax_rate = flat_tax_rate,
                               !.corporate_tax_threshold = corporate_tax_threshold]

----------------------------------------------------------------------------
(* The two pipelines called on one bundle of arguments                     *)

\* no model object has been constructed
InitModeles ==
    /\ arguments = ArgumentsDefaut
    /\ parametres = << >>
    /\ erreur = << >>
    /\ validation = << >>
    /\ tranches = << >>
    /\ taux_fiscaux = << >>
    /\ configuration = << >>

Init ==
    /\ params \in Params
    /\ appel_sasu = << >>
    /\ appel_eurl = << >>
    /\ appel_is = << >>
    /\ appel_ir = << >>
    /\ appel_taux_marginal = << >>
    /\ InitModeles

SimulerSasu ==
    /\ appel_sasu = << >>
    /\ appel_sasu' = << [locals |-> locals_sasu(params), retour |-> simuler_sasu(params)] >>
    /\ UNCHANGED <<params, appel_eurl, appel_is, appel_ir, appel_taux_marginal>>
    /\ UNCHANGED vars_modeles

SimulerEurl ==
    /\ appel_eurl = << >>
    /\ appel_eurl' = << [locals |-> locals_eurl(params), retour |-> simuler_eurl(params)] >>
    /\ UNCHANGED <<params, appel_sasu, appel_is, appel_ir, appel_taux_marginal>>
    /\ UNCHANGED vars_modeles

Next == SimulerSasu \/ SimulerEurl

Spec == Init /\ [][Next]_vars

----------------------------------------------------------------------------
(* The bracket calculators called directly                                 *)

\* no function of the engine has been called
InitApp ==
    /\ params = ParamsDefaut
    /\ appel_sasu = << >>
    /\ appel_eurl = << >>
    /\ appel_is = << >>
    /\ appel_ir = << >>
    /\ appel_taux_marginal = << >>

InitCalcul ==
    /\ InitApp
    /\ InitModeles

CalculIs ==
    /\ \E benefice \in Premiers(BeneficeValeurs, NbBenefice) :
           appel_is' = << [benefice |-> benefice, retour |-> calcul_is(benefice)] >>
    /\ UNCHANGED <<params, appel_sasu, appel_eurl, appel_ir, appel_taux_marginal>>
    /\ UNCHANGED vars_modeles

CalculIr ==
    /\ \E revenu \in Premiers(RevenuValeurs, NbRevenu),
          parts \in Premiers(PartsIrValeurs, NbPartsIr) :
           appel_ir' = << [revenu_imposable |-> revenu, parts |-> parts,
                           retour |-> calcul_ir(revenu, parts)] >>
    /\ UNCHANGED <<params, appel_sasu, appel_eurl, appel_is, appel_taux_marginal>>
    /\ UNCHANGED vars_modeles

NextCalcul == CalculIs \/ CalculIr

SpecCalcul == InitCalcul /\ [][NextCalcul]_vars

----------------------------------------------------------------------------
(* calcul_taux_marginal_ir called on successive incomes of one household   *)

MaxAppelsTauxMarginal == 2

\* one more call of calcul_taux_marginal_ir; the number of shares is the one
\* of the first call
CalculTauxMarginal ==
    /\ Len(appel_taux_marginal) < MaxAppelsTauxMarginal
    /\ \E revenu \in Premiers(RevenuValeurs, NbRevenu),
          parts \in Premiers(PartsIrValeurs, NbPartsIr) :
           /\ appel_taux_marginal # << >> => parts = appel_taux_marginal[1].parts
           /\ appel_taux_marginal' =
                  Append(appel_taux_marginal,
                         [revenu_imposable |-> revenu, parts |-> parts,
                          retour |-> calcul_taux_marginal_ir(revenu, parts)])
    /\ UNCHANGED <<params, appel_sasu, appel_eurl, appel_is, appel_ir>>
    /\ UNCHANGED vars_modeles

NextTauxMarginal == CalculTauxMarginal

SpecTauxMarginal == InitCalcul /\ [][NextTauxMarginal]_vars

----------------------------------------------------------------------------
(* SimulationParameters: construction, then validation for a status        *)

InitParametres ==
    /\ InitApp
    /\ arguments \in Arguments
    /\ parametres = << >>
    /\ erreur = << >>
    /\ validation = << >>
    /\ tranches = << >>
    /\ taux_fiscaux = << >>
    /\ configuration = << >>

\* SimulationParameters(**arguments): the object exists only if __post_init__
\* returns
ConstruireParametres ==
    /\ parametres = << >>
    /\ erreur = << >>
    /\ parametres' = IF post_init(arguments) = << >> THEN <<arguments>> ELSE << >>
    /\ erreur' = post_init(arguments)
    /\ UNCHANGED <<arguments, validation, tranches, taux_fiscaux, configuration>>
    /\ UNCHANGED vars_app

\* parametres.validate_for_status(status)
ValiderPourStatut ==
    /\ parametres # << >>
    /\ validation = << >>
    /\ \E status \in Premiers(StatutValeurs, NbStatut) :
           validation' = << [status |-> status,
                             erreur |-> validate_for_status(parametres[1], status)] >>
    /\ UNCHANGED <<arguments, parametres, erreur, tranches, taux_fiscaux, configuration>>
    /\ UNCHANGED vars_app

NextParametres == ConstruireParametres \/ ValiderPourStatut

SpecParametres == InitParametres /\ [][NextParametres]_vars

----------------------------------------------------------------------------
(* TaxBracket, TaxRates, FiscalConfiguration                               *)

InitFiscal ==
    /\ InitApp
    /\ InitModeles

\* TaxBracket(threshold, rate), kept in the list of brackets if constructed
ConstruireTranche ==
    /\ Len(tranches) < MaxTranches
    /\ taux_fiscaux = << >>
    /\ \E threshold \in Premiers(SeuilValeurs, NbSeuil),
          rate \in Premiers(TauxTrancheValeurs, NbTauxTranche) :
           /\ arguments' = [threshold |-> threshold, rate |-> rate]
           /\ erreur' = TaxBracket_post_init(threshold, rate)
           /\ tranches' = IF TaxBracket_post_init(threshold, rate) = << >>
                          THEN Append(tranches, TaxBracket(threshold, rate))
                          ELSE tranches
    /\ UNCHANGED <<parametres, validation, taux_fiscaux, configuration>>
    /\ UNCHANGED vars_app

\* TaxRates(year, income_tax_brackets=tranches, ...)
ConstruireTaux ==
    /\ taux_fiscaux = << >>
    /\ \E year \in Premiers(AnneeValeurs, NbAnnee),
          flat_tax_rate \in Premiers(FlatTaxValeurs, NbFlatTax),
          corporate_tax_threshold \in Premiers(SeuilIsValeurs, NbSeuilIs) :
           /\ arguments' = ArgumentsTaux(year, tranches, flat_tax_rate,
                                         corporate_tax_threshold)
           /\ erreur' = TaxRates_post_init(arguments')
           /\ taux_fiscaux' = IF TaxRates_post_init(arguments') = << >>
                              THEN <<arguments'>> ELSE << >>
    /\ UNCHANGED <<parametres, validation, tranches, configuration>>
    /\ UNCHANGED vars_app

\* FiscalConfiguration.for_year(year)
PourAnnee ==
    /\ configuration = << >>
    /\ \E year \in Premiers(AnneeValeurs, NbAnnee) :
           /\ arguments' = [year |-> year]
           /\ erreur' = for_year(year).erreur
           /\ configuration' = for_year(year).configuration
    /\ UNCHANGED <<parametres, validation, tranches, taux_fiscaux>>
    /\ UNCHANGED vars_app

\* FiscalConfiguration(...) called directly: each of the two arguments is
\* either left out (<< >>, the default applies) or given (<<value>>); the
\* dataclass has no __post_init__, so nothing is validated
ConstruireConfiguration ==
    /\ configuration = << >>
    /\ \E year \in {<< >>} \cup {<<y>> : y \in Premiers(AnneeValeurs, NbAnnee)},
          tax_rates \in {<< >>, taux_fiscaux} :
           /\ arguments' = [year |-> year, tax_rates |-> tax_rates]
           /\ erreur' = IF tax_rates = << >> THEN erreur_2024 ELSE << >>
           /\ configuration' =
                  IF tax_rates = << >> /\ erreur_2024 # << >> THEN << >>
                  ELSE << FiscalConfiguration(
                              IF year = << >> THEN ANNEE_PAR_DEFAUT ELSE year[1],
                              IF tax_rates = << >> THEN get_2024_tax_rates
                              ELSE tax_rates[1]) >>
    /\ UNCHANGED <<parametres, validation, tranches, taux_fiscaux>>
    /\ UNCHANGED vars_app

NextFiscal == ConstruireTranche \/ ConstruireTaux \/ PourAnnee \/ ConstruireConfiguration

SpecFiscal == InitFiscal /\ [][NextFiscal]_vars

----------------------------------------------------------------------------
(* Properties                                                              *)

\* the calls made so far, each with the pipeline's multiplier
Appels ==
    {[l |-> appel_sasu[i].locals, r |-> appel_sasu[i].retour, m |-> Q(82, 100)] :
         i \in 1..Len(appel_sasu)}
    \cup
    {[l |-> appel_eurl[i].locals, r |-> appel_eurl[i].retour, m |-> Q(45, 100)] :
         i \in 1..Len(appel_eurl)}

AppelsSasu == {appel_sasu[i] : i \in 1..Len(appel_sasu)}

AppelsEurl == {appel_eurl[i] : i \in 1..Len(appel_eurl)}

\* target x (1 + m) exceeds the available profit
Limite(a) ==
    Gt(Times(params.remuneration_nette_cible, Plus(R(1), a.m)),
       a.l.benefice_avant_remuneration)

\* C1: in both pipelines, for every target >= 0 and every available profit,
\* contributions + net compensation = total cost charged, and the total cost
\* charged is at most the available profit.
C1_CoutTotal ==
    \A a \in Appels :
        /\ Plus(a.r.charges_sociales, a.r.remuneration_nette) = a.l.cout_total_remuneration
        /\ Leq(a.l.cout_total_remuneration, a.r.benefice_avant_remuneration)
        /\ a.r.benefice_apres_remuneration =
               Minus(a.r.benefice_avant_remuneration, a.l.cout_total_remuneration)

\* C1 witness: a clamped SASU call and an unclamped EURL call of a positive target
C1_Witness ==
    /\ appel_sasu # << >> /\ appel_eurl # << >>
    /\ Gt(params.remuneration_nette_cible, Zero)
    /\ Gt(params.remuneration_nette_cible, appel_sasu[1].retour.remuneration_nette)
    /\ Gt(appel_sasu[1].retour.remuneration_nette, Zero)
    /\ appel_eurl[1].retour.remuneration_nette = params.remuneration_nette_cible

\* C2: whenever the available profit is <= 0 both pipelines return net
\* compensation 0 and contributions 0, and no call returns a negative net
\* compensation.
C2_PasDeRemunerationNegative ==
    \A a \in Appels :
        /\ Leq(a.r.benefice_avant_remuneration, Zero) =>
               a.r.remuneration_nette = Zero /\ a.r.charges_sociales = Zero
        /\ Leq(Zero, a.r.remuneration_nette)

\* C3: when target x (1 + m) exceeds the available profit, net compensation =
\* available profit / (1 + m), contributions = available profit - net
\* compensation, profit after compensation = 0, corporate tax = 0 and nothing
\* is distributed even with the flag set (SASU 50000 / 10000 / 35000 gives
\* net 2000000/91 ~ 21978.02 and contributions 1640000/91 ~ 18021.98).
C3_RemunerationLimitee ==
    /\ \A a \in Appels :
           Limite(a) =>
               /\ a.r.remuneration_nette =
                      Quot(a.r.benefice_avant_remuneration, Plus(R(1), a.m))
               /\ a.r.charges_sociales =
                      Minus(a.r.benefice_avant_remuneration, a.r.remuneration_nette)
               /\ a.r.benefice_apres_remuneration = Zero
               /\ a.r.is_societe = Zero
               /\ a.r.dividendes_bruts = Zero
               /\ a.r.dividendes_nets = Zero
    /\ \A a \in AppelsSasu :
           (/\ params.ca_ht = R(50000)
            /\ params.charges_exploitation = R(10000)
            /\ params.remuneration_nette_cible = R(35000)) =>
               /\ a.retour.remuneration_nette = Q(2000000, 91)
               /\ a.retour.charges_sociales = Q(1640000, 91)

\* C3 witness: the clamped scenario of the spec, dividends requested
C3_Witness ==
    /\ appel_sasu # << >>
    /\ params.ca_ht = R(50000)
    /\ params.charges_exploitation = R(10000)
    /\ params.remuneration_nette_cible = R(35000)
    /\ params.distribuer_dividendes
    /\ appel_sasu[1].retour.remuneration_nette = Q(2000000, 91)

\* C4: in both pipelines, if distribuer_dividendes is false or the
\* post-corporate-tax result is <= 0, gross dividends, dividend contributions,
\* dividend tax and net dividends are all exactly 0; otherwise gross dividends
\* equal the whole post-tax result.
C4_DividendesToutOuRien ==
    \A a \in Appels :
        IF ~params.distribuer_dividendes \/ Leq(a.r.resultat_net_societe, Zero)
        THEN /\ a.r.dividendes_bruts = Zero
             /\ a.r.charges_dividendes = Zero
             /\ a.r.impot_dividendes = Zero
             /\ a.r.dividendes_nets = Zero
        ELSE a.r.dividendes_bruts = a.r.resultat_net_societe

\* C4 witness: a positive post-tax result left undistributed, flag unset
C4_Witness ==
    /\ appel_sasu # << >>
    /\ ~params.distribuer_dividendes
    /\ Gt(appel_sasu[1].retour.resultat_net_societe, Zero)
    /\ appel_sasu[1].retour.dividendes_bruts = Zero

\* C5: in simuler_eurl, when dividends are distributed, the dividend social
\* contribution is 0 if gross dividends <= 10% of share capital and
\* 0.45 x (gross dividends - 10% of share capital) otherwise.
C5_ChargesDividendesEurl ==
    \A e \in AppelsEurl :
        (params.distribuer_dividendes /\ Gt(e.retour.resultat_net_societe, Zero)) =>
            LET seuil == Times(params.capital_social, Q(1, 10))
            IN  IF Leq(e.retour.dividendes_bruts, seuil)
                THEN e.retour.charges_dividendes = Zero
                ELSE e.retour.charges_dividendes =
                         Times(Q(45, 100), Minus(e.retour.dividendes_bruts, seuil))

\* C5 witness: dividends distributed strictly below 10% of the share capital
C5_Witness ==
    /\ appel_eurl # << >>
    /\ Gt(appel_eurl[1].retour.dividendes_bruts, Zero)
    /\ Gt(Times(params.capital_social, Q(1, 10)), appel_eurl[1].retour.dividendes_bruts)
    /\ appel_eurl[1].retour.charges_dividendes = Zero

\* C6: in simuler_eurl, dividend tax = 0.30 x (gross dividends - dividend
\* contribution) under flat tax, or 0.172 x that amount under the progressive
\* option with 60% of that amount added to the personal-income-tax base; net
\* dividends = gross dividends - contribution - dividend tax.
C6_ImpotDividendesEurl ==
    \A e \in AppelsEurl :
        (params.distribuer_dividendes /\ Gt(e.retour.resultat_net_societe, Zero)) =>
            LET apres == Minus(e.retour.dividendes_bruts, e.retour.charges_dividendes)
            IN  /\ IF params.option_bareme_ir
                   THEN /\ e.retour.impot_dividendes = Times(Q(172, 1000), apres)
                        /\ e.retour.revenu_imposable_ir =
                               Plus(e.locals.revenu_imposable_salaire,
                                    Times(Q(60, 100), apres))
                   ELSE /\ e.retour.impot_dividendes = Times(Q(30, 100), apres)
                        /\ e.retour.revenu_imposable_ir = e.locals.revenu_imposable_salaire
                /\ e.retour.dividendes_nets =
                       Minus(Minus(e.retour.dividendes_bruts, e.retour.charges_dividendes),
                             e.retour.impot_dividendes)

\* C6 witness: dividends bearing a contribution, taxed under the progressive option
C6_Witness ==
    /\ appel_eurl # << >>
    /\ params.option_bareme_ir
    /\ Gt(appel_eurl[1].retour.charges_dividendes, Zero)
    /\ Gt(appel_eurl[1].retour.impot_dividendes, Zero)

\* C7: in simuler_sasu the dividend social contribution is exactly 0 for
\* every input; distributed dividends are taxed at 0.30 x gross dividends
\* under flat tax with nothing added to the personal-income-tax base, or at
\* 0.172 x gross dividends under the progressive option with 60% of gross
\* dividends added to the base.
C7_DividendesSasu ==
    \A s \in AppelsSasu :
        /\ s.retour.charges_dividendes = Zero
        /\ (params.distribuer_dividendes /\ Gt(s.retour.resultat_net_societe, Zero)) =>
               IF params.option_bareme_ir
               THEN /\ s.retour.impot_dividendes =
                           Times(Q(172, 1000), s.retour.dividendes_bruts)
                    /\ s.retour.revenu_imposable_ir =
                           Plus(s.locals.revenu_imposable_salaire,
                                Times(Q(60, 100), s.retour.dividendes_bruts))
               ELSE /\ s.retour.impot_dividendes =
                           Times(Q(30, 100), s.retour.dividendes_bruts)
                    /\ s.retour.revenu_imposable_ir = s.locals.revenu_imposable_salaire

\* C7 witness: SASU dividends distributed under the progressive option
C7_Witness ==
    /\ appel_sasu # << >>
    /\ params.option_bareme_ir
    /\ Gt(appel_sasu[1].retour.dividendes_bruts, Zero)
    /\ Gt(appel_sasu[1].retour.revenu_imposable_ir,
          appel_sasu[1].locals.revenu_imposable_salaire)

AppelsIs == {appel_is[i] : i \in 1..Len(appel_is)}

AppelsIr == {appel_ir[i] : i \in 1..Len(appel_ir)}

\* C8: calcul_is returns 0 for every profit <= 0, profit x 0.15 for
\* 0 < profit <= 42500 (6375 at exactly 42500), and
\* 42500 x 0.15 + (profit - 42500) x 0.25 above (20750 at 100000).
C8_CalculIs ==
    \A c \in AppelsIs :
        /\ c.benefice.n <= 0 => c.retour = Zero
        /\ (c.benefice.n > 0 /\ Leq(c.benefice, R(42500))) =>
               c.retour = Times(c.benefice, Q(15, 100))
        /\ Gt(c.benefice, R(42500)) =>
               c.retour = Plus(R(6375), Times(Minus(c.benefice, R(42500)), Q(25, 100)))
        /\ c.benefice = R(42500) => c.retour = R(6375)
        /\ c.benefice = R(100000) => c.retour = R(20750)

\* C8 witness: a profit above the reduced-rate threshold has been taxed
C8_Witness ==
    /\ appel_is # << >>
    /\ appel_is[1].benefice = R(100000)
    /\ appel_is[1].retour = R(20750)

\* the index of the first bracket whose threshold is >= x
PremiereTranche(x) ==
    CHOOSE k \in 1..Len(TRANCHES_IR) :
        /\ LeqSeuil(x, TRANCHES_IR[k])
        /\ \A j \in 1..(k - 1) : ~LeqSeuil(x, TRANCHES_IR[j])

\* sum over brackets 1..k of (min(x, threshold) - previous threshold) x rate
RECURSIVE SommeTranches(_, _)
SommeTranches(x, k) ==
    IF k = 0 THEN Zero
    ELSE LET t == TRANCHES_IR[k]
             haut == IF t.inf THEN x ELSE MinQ(x, t.seuil)
             bas == IF k = 1 THEN Zero ELSE TRANCHES_IR[k - 1].seuil
         IN  Plus(SommeTranches(x, k - 1), Times(Minus(haut, bas), t.taux))

\* C9: calcul_ir returns 0 for income <= 0 and otherwise shares x the sum,
\* over the ordered brackets up to and including the first whose threshold is
\* >= income/shares, of (min(income/shares, threshold) - previous threshold)
\* x rate; an income per share equal to a threshold is taxed entirely in the
\* lower brackets (11294 with 1 share gives 0).
C9_CalculIr ==
    \A c \in AppelsIr :
        LET x == Quot(c.revenu_imposable, c.parts)
        IN  /\ c.revenu_imposable.n <= 0 => c.retour = Zero
            /\ c.revenu_imposable.n > 0 =>
                   c.retour = Times(c.parts, SommeTranches(x, PremiereTranche(x)))
            /\ (c.revenu_imposable = R(11294) /\ c.parts = R(1)) => c.retour = Zero
            /\ (c.revenu_imposable = R(28797) /\ c.parts = R(1)) =>
                   c.retour = Q(192533, 100)

\* C9 witness: an income per share in the third bracket, with two shares
C9_Witness ==
    /\ appel_ir # << >>
    /\ appel_ir[1].parts = R(2)
    /\ Gt(Quot(appel_ir[1].revenu_imposable, appel_ir[1].parts), R(28797))
    /\ Leq(Quot(appel_ir[1].revenu_imposable, appel_ir[1].parts), R(82341))
    /\ Gt(appel_ir[1].retour, Zero)

\* C10: for calcul_ir, with the number of shares fixed the tax is
\* non-decreasing in income, and with the income fixed the tax is
\* non-increasing in the number of shares.
C10_Monotonie ==
    \A c \in AppelsIr :
        /\ \A revenu \in Premiers(RevenuValeurs, NbRevenu) :
               Leq(c.revenu_imposable, revenu) =>
                   Leq(c.retour, calcul_ir(revenu, c.parts))
        /\ \A parts \in Premiers(PartsIrValeurs, NbPartsIr) :
               Leq(c.parts, parts) =>
                   Leq(calcul_ir(c.revenu_imposable, parts), c.retour)

\* C10 witness: a taxed income for which more shares strictly lower the tax
\* and a higher income strictly raises it
C10_Witness ==
    /\ appel_ir # << >>
    /\ Gt(appel_ir[1].retour, Zero)
    /\ \E parts \in Premiers(PartsIrValeurs, NbPartsIr) :
           /\ Gt(parts, appel_ir[1].parts)
           /\ Gt(appel_ir[1].retour, calcul_ir(appel_ir[1].revenu_imposable, parts))
    /\ \E revenu \in Premiers(RevenuValeurs, NbRevenu) :
           /\ Gt(revenu, appel_ir[1].revenu_imposable)
           /\ Gt(calcul_ir(revenu, appel_ir[1].parts), appel_ir[1].retour)

----------------------------------------------------------------------------
(* Results of the pipelines on validated inputs                            *)

\* the SimulationParameters carrying the arguments p of the pipelines: the
\* target is monthly there and annual here
ParametresDe(p) ==
    [annual_revenue |-> p.ca_ht,
     operating_expenses |-> p.charges_exploitation,
     target_net_salary |-> Quot(p.remuneration_nette_cible, R(12)),
     distribute_dividends |-> p.distribuer_dividendes,
     tax_parts |-> p.parts_fiscales,
     use_progressive_tax |-> p.option_bareme_ir,
     share_capital |-> p.capital_social]

\* the arguments of the pipelines are accepted by validation
Valide == post_init(ParametresDe(params)) = << >>

\* the numeric fields of a ResultatSimulation
ChampsNumeriques(r) ==
    {r.ca_ht, r.charges_exploitation, r.benefice_avant_remuneration,
     r.remuneration_brute, r.charges_sociales, r.remuneration_nette,
     r.benefice_apres_remuneration, r.is_societe, r.resultat_net_societe,
     r.dividendes_bruts, r.charges_dividendes, r.impot_dividendes,
     r.dividendes_nets, r.revenu_imposable_ir, r.ir_total, r.net_disponible,
     r.taux_prelevement_global}

\* C11: for every input with revenue > 0, expenses <= revenue, target >= 0
\* and shares in [0.5, 6], the overall levy rate returned by simuler_sasu and
\* by simuler_eurl lies in [0, 1].
C11_TauxPrelevement ==
    \A a \in Appels :
        (/\ Gt(params.ca_ht, Zero)
         /\ Leq(params.charges_exploitation, params.ca_ht)
         /\ Leq(Zero, params.remuneration_nette_cible)
         /\ Leq(Q(5, 10), params.parts_fiscales)
         /\ Leq(params.parts_fiscales, R(6))) =>
            /\ Leq(Zero, a.r.taux_prelevement_global)
            /\ Leq(a.r.taux_prelevement_global, R(1))
            /\ a.r.taux_prelevement_global = Quot(a.l.total_preleve, params.ca_ht)

\* C11 witness: a sane input whose SASU levy rate is strictly between 0 and 1
\* and whose EURL call has also returned
C11_Witness ==
    /\ appel_sasu # << >> /\ appel_eurl # << >>
    /\ Gt(params.ca_ht, Zero)
    /\ Leq(params.charges_exploitation, params.ca_ht)
    /\ Gt(appel_sasu[1].retour.taux_prelevement_global, Zero)
    /\ Gt(R(1), appel_sasu[1].retour.taux_prelevement_global)
    /\ Gt(appel_eurl[1].retour.taux_prelevement_global, Zero)

\* C12: for every input accepted by validation, every numeric field of the
\* result of either pipeline is >= 0 (the final disposable net and the
\* post-tax corporate result included), and the profit after compensation is
\* never negative.
C12_ChampsPositifs ==
    \A a \in Appels :
        Valide =>
            /\ \A x \in ChampsNumeriques(a.r) : Leq(Zero, x)
            /\ Leq(Zero, a.l.benefice_apres_remuneration)

\* C12 witness: a validated input whose target is clamped in both pipelines,
\* leaving a profit after compensation of exactly 0
C12_Witness ==
    /\ appel_sasu # << >> /\ appel_eurl # << >>
    /\ Valide
    /\ Gt(params.remuneration_nette_cible, appel_sasu[1].retour.remuneration_nette)
    /\ Gt(params.remuneration_nette_cible, appel_eurl[1].retour.remuneration_nette)
    /\ appel_sasu[1].retour.benefice_apres_remuneration = Zero
    /\ appel_eurl[1].retour.benefice_apres_remuneration = Zero
    /\ Gt(appel_sasu[1].retour.net_disponible, Zero)

\* the scenario of the two end-to-end examples
ScenarioDeBase ==
    /\ params.ca_ht = R(100000)
    /\ params.charges_exploitation = R(10000)
    /\ params.remuneration_nette_cible = R(48000)
    /\ params.distribuer_dividendes
    /\ params.parts_fiscales = R(1)
    /\ ~params.option_bareme_ir

\* C18: SASU, revenue 100000, expenses 10000, annual target 48000, dividends
\* distributed, 1 share, flat tax: profit before compensation 90000, net
\* compensation 48000, contributions 39360, profit after compensation 2640,
\* corporate tax 396, post-tax result 2244, gross dividends 2244, dividend
\* tax 673.2, net dividends 1570.8.
C18_ScenarioSasu ==
    \A s \in AppelsSasu :
        ScenarioDeBase =>
            /\ s.retour.benefice_avant_remuneration = R(90000)
            /\ s.retour.remuneration_nette = R(48000)
            /\ s.retour.charges_sociales = R(39360)
            /\ s.retour.benefice_apres_remuneration = R(2640)
            /\ s.retour.is_societe = R(396)
            /\ s.retour.resultat_net_societe = R(2244)
            /\ s.retour.dividendes_bruts = R(2244)
            /\ s.retour.impot_dividendes = Q(6732, 10)
            /\ s.retour.dividendes_nets = Q(15708, 10)

\* C18 witness: simuler_sasu has returned on the scenario
C18_Witness ==
    /\ ScenarioDeBase
    /\ appel_sasu # << >>
    /\ appel_sasu[1].retour.statut = "SASU"
    /\ appel_sasu[1].retour.dividendes_nets = Q(15708, 10)

\* C19: EURL, revenue 100000, expenses 10000, annual target 48000, capital
\* 1000, dividends distributed, 1 share, flat tax: net compensation 48000,
\* contributions 21600, profit after compensation 20400, corporate tax 3060,
\* post-tax result 17340, dividend social contribution 7758,
\* post-contribution dividends 9582, dividend tax 2874.6, net dividends
\* 6707.4.
C19_ScenarioEurl ==
    \A e \in AppelsEurl :
        (ScenarioDeBase /\ params.capital_social = R(1000)) =>
            /\ e.retour.remuneration_nette = R(48000)
            /\ e.retour.charges_sociales = R(21600)
            /\ e.retour.benefice_apres_remuneration = R(20400)
            /\ e.retour.is_societe = R(3060)
            /\ e.retour.resultat_net_societe = R(17340)
            /\ e.retour.charges_dividendes = R(7758)
            /\ Minus(e.retour.dividendes_bruts, e.retour.charges_dividendes) = R(9582)
            /\ e.retour.impot_dividendes = Q(28746, 10)
            /\ e.retour.dividendes_nets = Q(67074, 10)

\* C19 witness: simuler_eurl has returned on the scenario
C19_Witness ==
    /\ ScenarioDeBase
    /\ params.capital_social = R(1000)
    /\ appel_eurl # << >>
    /\ appel_eurl[1].retour.statut = "EURL"
    /\ appel_eurl[1].retour.dividendes_nets = Q(67074, 10)

\* the fields the zero-revenue scenario is about
ChampsRevenuNul(r) ==
    {r.benefice_avant_remuneration, r.benefice_apres_remuneration,
     r.remuneration_nette, r.charges_sociales, r.is_societe,
     r.resultat_net_societe, r.dividendes_bruts, r.charges_dividendes,
     r.impot_dividendes, r.dividendes_nets, r.ir_total, r.net_disponible,
     r.taux_prelevement_global}

\* C20: with revenue = 0 and validated inputs (hence expenses = 0 and
\* target = 0) both pipelines return 0 for profit, net compensation,
\* contributions, corporate tax, all dividend fields, income tax, disposable
\* net and levy rate; the levy rate is 0 and no division by zero occurs.
C20_RevenuNul ==
    \A a \in Appels :
        (Valide /\ params.ca_ht = Zero) =>
            /\ params.charges_exploitation = Zero
            /\ params.remuneration_nette_cible = Zero
            /\ ChampsRevenuNul(a.r) = {Zero}
            /\ DivisionParZero \notin ChampsNumeriques(a.r)
            /\ a.l.total_preleve = Zero

\* C20 witness: both pipelines have returned on a validated zero-revenue
\* input that asks for dividends
C20_Witness ==
    /\ Valide
    /\ params.ca_ht = Zero
    /\ params.distribuer_dividendes
    /\ appel_sasu # << >> /\ appel_eurl # << >>
    /\ appel_sasu[1].retour.taux_prelevement_global = Zero
    /\ appel_eurl[1].retour.taux_prelevement_global = Zero

----------------------------------------------------------------------------
(* Validation of SimulationParameters                                      *)

\* the constructor of SimulationParameters has returned or raised
ConstructionFaite == parametres # << >> \/ erreur # << >>

\* the rules on the arguments other than the one on the share capital
ReglesHorsCapital ==
    /\ Leq(Zero, arguments.annual_revenue)
    /\ Leq(Zero, arguments.operating_expenses)
    /\ Leq(Zero, arguments.target_net_salary)
    /\ Leq(Q(1, 2), arguments.tax_parts)
    /\ Leq(arguments.tax_parts, R(6))
    /\ Leq(arguments.operating_expenses, arguments.annual_revenue)
    /\ Leq(Times(R(12), arguments.target_net_salary), arguments.annual_revenue)
    /\ \/ ~arguments.distribute_dividends
       \/ Leq(Times(Q(3, 2), Times(R(12), arguments.target_net_salary)),
              Minus(arguments.annual_revenue, arguments.operating_expenses))

\* C13: constructing SimulationParameters succeeds if and only if revenue >= 0,
\* expenses >= 0, monthly target >= 0, share capital > 0, 0.5 <= fiscal
\* shares <= 6.0, expenses <= revenue, 12 x monthly target <= revenue, and
\* (distribute_dividends is false or 1.5 x 12 x monthly target <= revenue -
\* expenses); in every other case construction fails with an error and no
\* parameter object exists.
C13_Construction ==
    ConstructionFaite =>
        IF ReglesHorsCapital /\ Gt(arguments.share_capital, Zero)
        THEN parametres = <<arguments>> /\ erreur = << >>
        ELSE parametres = << >> /\ erreur # << >>

\* C13 witness: construction refused on the dividend-feasibility rule alone
C13_Witness ==
    /\ erreur # << >>
    /\ parametres = << >>
    /\ arguments.distribute_dividends
    /\ erreur[1].message[1] = "Impossible de distribuer des dividendes"
    /\ Leq(Times(R(12), arguments.target_net_salary), arguments.annual_revenue)

\* C14: the EURL minimum-capital check is applied only on demand:
\* SimulationParameters with 0 < share capital < 100 is constructed
\* successfully, validate_for_status("EURL") then fails if and only if share
\* capital < 100, validate_for_status("SASU") never fails, and
\* validate_for_status with any other status name fails with an
\* invalid-status error.
C14_ValidationStatut ==
    /\ (/\ ConstructionFaite
        /\ ReglesHorsCapital
        /\ Gt(arguments.share_capital, Zero)
        /\ Gt(R(100), arguments.share_capital)) => parametres = <<arguments>>
    /\ validation # << >> =>
           /\ parametres # << >>
           /\ IF validation[1].status = "EURL"
              THEN (validation[1].erreur # << >>) <=>
                       Gt(R(100), parametres[1].share_capital)
              ELSE IF validation[1].status = "SASU"
              THEN validation[1].erreur = << >>
              ELSE /\ validation[1].erreur # << >>
                   /\ validation[1].erreur[1].message[1] = "Statut invalide"

\* C14 witness: an object constructed with a share capital of 50 is refused
\* for the EURL status
C14_Witness ==
    /\ parametres # << >>
    /\ validation # << >>
    /\ parametres[1].share_capital = R(50)
    /\ validation[1].status = "EURL"
    /\ validation[1].erreur # << >>
    /\ validation[1].erreur[1].message[1] = "Capital social"

----------------------------------------------------------------------------
(* Fiscal configuration                                                    *)

\* the last constructor call was FiscalConfiguration.for_year
AppelPourAnnee == DOMAIN arguments = {"year"}

\* the last constructor call was TaxBracket
AppelTranche == DOMAIN arguments = {"threshold", "rate"}

\* C15: FiscalConfiguration.for_year(y) fails with an unsupported-year error
\* for every year y other than 2024, and for 2024 returns a configuration
\* whose year and whose rate table's year are both 2024.
C15_PourAnnee ==
    AppelPourAnnee =>
        IF arguments.year = 2024
        THEN /\ erreur = << >>
             /\ Len(configuration) = 1
             /\ configuration[1].year = 2024
             /\ configuration[1].tax_rates.year = 2024
        ELSE /\ configuration = << >>
             /\ erreur # << >>
             /\ erreur[1].message = <<"Les taux fiscaux pour l'annee",
                                      "ne sont pas disponibles">>
             /\ erreur[1].valeur = arguments.year

\* C15 witness: for_year(2024) has returned the 2024 table
C15_Witness ==
    /\ AppelPourAnnee
    /\ arguments.year = 2024
    /\ configuration # << >>
    /\ Len(configuration[1].tax_rates.income_tax_brackets) = 5

\* C16: every successfully constructed tax rate table has income-tax bracket
\* thresholds strictly increasing in order, a final bracket whose threshold
\* is unbounded (+infinity), and every bracket rate in [0, 1].
C16_TableValide ==
    \A k \in 1..Len(taux_fiscaux) :
        LET b == taux_fiscaux[k].income_tax_brackets
        IN  /\ \A i \in 2..Len(b) : DecimalLt(b[i - 1].threshold, b[i].threshold)
            /\ b # << >>
            /\ b[Len(b)].threshold = Infini
            /\ \A i \in 1..Len(b) : Leq(Zero, b[i].rate) /\ Leq(b[i].rate, R(1))

\* C17: constructing a TaxBracket with a negative threshold is rejected with
\* an error whose message reads "Le seuil de la tranche doit etre positif".
C17_SeuilNegatif ==
    (/\ AppelTranche
     /\ DecimalLt(arguments.threshold, Zero)
     /\ Leq(Zero, arguments.rate) /\ Leq(arguments.rate, R(1))) =>
        /\ erreur # << >>
        /\ erreur[1].message = <<"Le seuil de la tranche", "doit etre positif">>

----------------------------------------------------------------------------
(* Order of the validation of SimulationParameters                         *)

\* the rules of the validation in the order of the claim: whether the
\* arguments violate the rule, and the message that reports it
Regles ==
    << [viole |-> Gt(Zero, arguments.annual_revenue),
        message |-> <<"Le chiffre d'affaires", "ne peut pas etre negatif">>],
       [viole |-> Gt(Zero, arguments.operating_expenses),
        message |-> <<"Les charges d'exploitation", "ne peut pas etre negatif">>],
       [viole |-> Gt(Zero, arguments.target_net_salary),
        message |-> <<"La remuneration cible", "ne peut pas etre negatif">>],
       [viole |-> Leq(arguments.share_capital, Zero),
        message |-> <<"Le capital social",
                      IF Gt(Zero, arguments.share_capital)
                      THEN "ne peut pas etre negatif"
                      ELSE "doit etre strictement positif">>],
       [viole |-> Gt(Q(1, 2), arguments.tax_parts) \/ Gt(arguments.tax_parts, R(6)),
        message |-> <<"Le nombre de parts fiscales", "doit etre entre 0.5 et 6.0">>],
       [viole |-> Gt(arguments.operating_expenses, arguments.annual_revenue),
        message |-> <<"Les charges d'exploitation",
                      "ne peuvent pas depasser le chiffre d'affaires">>],
       [viole |-> Gt(Times(R(12), arguments.target_net_salary), arguments.annual_revenue),
        message |-> <<"La remuneration annuelle cible",
                      "ne peut pas depasser le chiffre d'affaires">>],
       [viole |-> /\ arguments.distribute_dividends
                  /\ Gt(Times(Q(3, 2), Times(R(12), arguments.target_net_salary)),
                        Minus(arguments.annual_revenue, arguments.operating_expenses)),
        message |-> <<"Impossible de distribuer des dividendes",
                      "benefice estime negatif apres remuneration">>] >>

\* the rules the arguments violate
Violees == {i \in 1..Len(Regles) : Regles[i].viole}

\* C21: SimulationParameters validation runs in a fixed order (revenue sign,
\* expenses sign, target sign, share capital > 0, fiscal shares range,
\* expenses <= revenue, annual target <= revenue, dividend feasibility) and
\* the error raised identifies the first violated rule in that order: a
\* negative revenue is reported as such even when expenses also exceed it,
\* and an annual target above revenue is reported as such even when the
\* dividend-feasibility rule is also violated.
C21_OrdreValidation ==
    (ConstructionFaite /\ Violees # {}) =>
        /\ erreur # << >>
        /\ erreur[1].message =
               Regles[CHOOSE i \in Violees : \A j \in Violees : i <= j].message
        /\ (Regles[1].viole /\ Regles[6].viole) =>
               erreur[1].message[1] = "Le chiffre d'affaires"
        /\ (Violees = {7, 8}) =>
               erreur[1].message[1] = "La remuneration annuelle cible"

\* C21 witness: a negative revenue, exceeded by the expenses, reported as a
\* negative revenue
C21_Witness ==
    /\ erreur # << >>
    /\ Gt(Zero, arguments.annual_revenue)
    /\ Gt(arguments.operating_expenses, arguments.annual_revenue)
    /\ arguments.distribute_dividends
    /\ erreur[1].message = <<"Le chiffre d'affaires", "ne peut pas etre negatif">>
    /\ erreur[1].valeur = arguments.annual_revenue

----------------------------------------------------------------------------
(* Validation against the clamp of the pipelines                           *)

\* C22: some parameter bundles pass construction-time validation with
\* distribute_dividends = true (1.5 x annual target <= revenue - expenses)
\* and are nevertheless clamped by the SASU pipeline (1.82 x annual target >
\* revenue - expenses), yielding net compensation below the target and zero
\* dividends; revenue 100000, expenses 40000, annual target 35000 is one.
C22_ValideMaisLimitee ==
    \A s \in AppelsSasu :
        /\ (/\ Valide
            /\ params.distribuer_dividendes
            /\ Gt(Times(Q(182, 100), params.remuneration_nette_cible),
                  s.retour.benefice_avant_remuneration)) =>
               /\ Gt(params.remuneration_nette_cible, s.retour.remuneration_nette)
               /\ s.retour.dividendes_bruts = Zero
               /\ s.retour.dividendes_nets = Zero
        /\ (/\ params.ca_ht = R(100000)
            /\ params.charges_exploitation = R(40000)
            /\ params.remuneration_nette_cible = R(35000)
            /\ params.distribuer_dividendes) =>
               /\ Valide
               /\ s.retour.remuneration_nette = Q(3000000, 91)
               /\ s.retour.dividendes_bruts = Zero

\* C22 witness: a validated bundle asking for dividends, clamped by
\* simuler_sasu
C22_Witness ==
    /\ appel_sasu # << >>
    /\ Valide
    /\ params.distribuer_dividendes
    /\ Leq(Times(Q(3, 2), params.remuneration_nette_cible),
           Minus(params.ca_ht, params.charges_exploitation))
    /\ Gt(params.remuneration_nette_cible, appel_sasu[1].retour.remuneration_nette)
    /\ Gt(appel_sasu[1].retour.remuneration_nette, Zero)
    /\ appel_sasu[1].retour.dividendes_bruts = Zero

----------------------------------------------------------------------------
(* Compensation, taxable base                                              *)

\* C23: in both pipelines, for every target >= 0, the actual net
\* compensation never exceeds the target (it equals the target exactly when
\* target x (1 + m) <= available profit), and the social contributions
\* always equal m x the actual net compensation, clamped or not.
C23_NetteEtCharges ==
    \A a \in Appels :
        Leq(Zero, params.remuneration_nette_cible) =>
            /\ Leq(a.r.remuneration_nette, params.remuneration_nette_cible)
            /\ (a.r.remuneration_nette = params.remuneration_nette_cible) <=> ~Limite(a)
            /\ a.r.charges_sociales = Times(a.m, a.r.remuneration_nette)

\* C23 witness: a positive target clamped in both pipelines to a positive
\* net compensation
C23_Witness ==
    /\ appel_sasu # << >> /\ appel_eurl # << >>
    /\ Gt(params.remuneration_nette_cible, appel_eurl[1].retour.remuneration_nette)
    /\ Gt(appel_eurl[1].retour.remuneration_nette, Zero)
    /\ Gt(appel_eurl[1].retour.remuneration_nette, appel_sasu[1].retour.remuneration_nette)
    /\ appel_eurl[1].retour.charges_sociales =
           Times(Q(45, 100), appel_eurl[1].retour.remuneration_nette)
    /\ appel_sasu[1].retour.charges_sociales =
           Times(Q(82, 100), appel_sasu[1].retour.remuneration_nette)

\* net compensation - min(10% of net compensation, 14171)
RemunerationImposable(remuneration_nette) ==
    Minus(remuneration_nette, MinQ(Times(Q(1, 10), remuneration_nette), R(14171)))

\* C24: in both pipelines the taxable compensation equals net compensation -
\* min(10% of net compensation, 14171), whatever the dividend-tax option; the
\* personal-income-tax base is that amount plus the taxable dividend share
\* only when both the progressive option and the distribution flag are set,
\* and that amount alone otherwise.
C24_BaseImposable ==
    \A a \in Appels :
        /\ a.l.revenu_imposable_salaire = RemunerationImposable(a.r.remuneration_nette)
        /\ a.r.revenu_imposable_ir =
               IF params.option_bareme_ir /\ params.distribuer_dividendes
               THEN Plus(RemunerationImposable(a.r.remuneration_nette),
                         a.l.dividendes_imposables)
               ELSE RemunerationImposable(a.r.remuneration_nette)
        /\ a.l.dividendes_imposables =
               IF params.option_bareme_ir
               THEN Times(Q(60, 100),
                          Minus(a.r.dividendes_bruts, a.r.charges_dividendes))
               ELSE Zero

\* C24 witness: the deduction is capped at 14171 in both pipelines and
\* dividends taxed under the progressive option enter the base
C24_Witness ==
    /\ appel_sasu # << >> /\ appel_eurl # << >>
    /\ params.option_bareme_ir /\ params.distribuer_dividendes
    /\ appel_sasu[1].locals.abattement_10 = R(14171)
    /\ appel_eurl[1].locals.abattement_10 = R(14171)
    /\ Gt(appel_sasu[1].locals.dividendes_imposables, Zero)
    /\ Gt(appel_eurl[1].retour.revenu_imposable_ir,
          appel_eurl[1].locals.revenu_imposable_salaire)

----------------------------------------------------------------------------
(* calcul_taux_marginal_ir                                                 *)

AppelsTauxMarginal == {appel_taux_marginal[i] : i \in 1..Len(appel_taux_marginal)}

\* the brackets whose threshold is >= x
TranchesAtteintes(x) == {i \in 1..Len(TRANCHES_IR) : LeqSeuil(x, TRANCHES_IR[i])}

\* the rates of the five brackets
TauxDesTranches == {TRANCHES_IR[i].taux : i \in 1..Len(TRANCHES_IR)}

\* C25: calcul_taux_marginal_ir(income, shares) returns the rate of the
\* first bracket whose threshold is >= income/shares, and 45% if no bracket
\* matches; for every income and shares > 0 the value returned is one of the
\* five bracket rates and is non-decreasing in income.
C25_TauxMarginal ==
    \A c \in AppelsTauxMarginal :
        Gt(c.parts, Zero) =>
            LET atteintes == TranchesAtteintes(Quot(c.revenu_imposable, c.parts))
            IN  /\ c.retour =
                       IF atteintes = {} THEN Q(45, 100)
                       ELSE TRANCHES_IR[CHOOSE i \in atteintes :
                                            \A j \in atteintes : i <= j].taux
                /\ c.retour \in TauxDesTranches
                /\ \A d \in AppelsTauxMarginal :
                       (d.parts = c.parts /\ Leq(c.revenu_imposable, d.revenu_imposable)) =>
                           Leq(c.retour, d.retour)

\* C25 witness: with two shares an income of 43200 falls in the 11% bracket
\* and a later income of 200000 in the 41% bracket
C25_Witness ==
    /\ Len(appel_taux_marginal) = 2
    /\ appel_taux_marginal[1].parts = R(2)
    /\ appel_taux_marginal[1].revenu_imposable = R(43200)
    /\ appel_taux_marginal[1].retour = Q(11, 100)
    /\ appel_taux_marginal[2].revenu_imposable = R(200000)
    /\ appel_taux_marginal[2].retour = Q(41, 100)

----------------------------------------------------------------------------
(* Where the available profit goes                                         *)

\* everything the pipeline levies or hands over, plus the post-tax result
\* left in the company when nothing is distributed
Emplois(r) ==
    Plus(r.charges_sociales,
    Plus(r.is_societe,
    Plus(r.charges_dividendes,
    Plus(r.impot_dividendes,
    Plus(r.ir_total,
    Plus(r.net_disponible,
         IF r.dividendes_bruts = Zero THEN r.resultat_net_societe ELSE Zero))))))

\* C26: money is conserved by each pipeline: for every input with expenses
\* <= revenue and target >= 0, available profit = compensation contributions
\* + corporate tax + dividend contributions + dividend tax + personal income
\* tax + final disposable net + (the post-tax corporate result when it is
\* not distributed, else 0).
C26_Conservation ==
    \A a \in Appels :
        (/\ Leq(params.charges_exploitation, params.ca_ht)
         /\ Leq(Zero, params.remuneration_nette_cible)) =>
            a.r.benefice_avant_remuneration = Emplois(a.r)

\* C26 witness: the flag is unset and a positive post-tax result stays in
\* the company in both pipelines, income tax being due
C26_Witness ==
    /\ appel_sasu # << >> /\ appel_eurl # << >>
    /\ Leq(params.charges_exploitation, params.ca_ht)
    /\ ~params.distribuer_dividendes
    /\ Gt(appel_sasu[1].retour.resultat_net_societe, Zero)
    /\ Gt(appel_eurl[1].retour.resultat_net_societe, Zero)
    /\ Gt(appel_sasu[1].retour.ir_total, Zero)
    /\ appel_eurl[1].retour.benefice_avant_remuneration = Emplois(appel_eurl[1].retour)

----------------------------------------------------------------------------
(* Validated bundles in the EURL pipeline, dividends and the clamp         *)

\* C27: for the EURL pipeline, any parameter bundle accepted by
\* SimulationParameters with distribute_dividends = true is never clamped:
\* the actual net compensation equals the annual target, because 1.45 x
\* target <= 1.5 x target <= revenue - expenses.
C27_EurlJamaisLimitee ==
    \A e \in AppelsEurl :
        (Valide /\ params.distribuer_dividendes) =>
            /\ e.retour.remuneration_nette = params.remuneration_nette_cible
            /\ e.locals.cout_total_remuneration =
                   Times(Q(145, 100), params.remuneration_nette_cible)
            /\ Leq(Times(Q(145, 100), params.remuneration_nette_cible),
                   Times(Q(150, 100), params.remuneration_nette_cible))
            /\ Leq(Times(Q(150, 100), params.remuneration_nette_cible),
                   e.retour.benefice_avant_remuneration)

\* C27 witness: a validated bundle asking for dividends that simuler_sasu
\* clamps and simuler_eurl does not
C27_Witness ==
    /\ appel_sasu # << >> /\ appel_eurl # << >>
    /\ Valide
    /\ params.distribuer_dividendes
    /\ Gt(params.remuneration_nette_cible, Zero)
    /\ Gt(params.remuneration_nette_cible, appel_sasu[1].retour.remuneration_nette)
    /\ appel_eurl[1].retour.remuneration_nette = params.remuneration_nette_cible
    /\ Gt(appel_eurl[1].retour.dividendes_bruts, Zero)

\* C28: in both pipelines, for target >= 0, gross dividends are strictly
\* positive if and only if the distribution flag is set and target x (1 + m)
\* is strictly below the available profit; corporate tax is always strictly
\* less than a positive post-compensation profit, so it can never by itself
\* cancel a dividend.
C28_DividendesPositifs ==
    \A a \in Appels :
        Leq(Zero, params.remuneration_nette_cible) =>
            /\ Gt(a.r.dividendes_bruts, Zero) <=>
                   /\ params.distribuer_dividendes
                   /\ Gt(a.r.benefice_avant_remuneration,
                         Times(params.remuneration_nette_cible, Plus(R(1), a.m)))
            /\ Gt(a.r.benefice_apres_remuneration, Zero) =>
                   /\ Gt(a.r.benefice_apres_remuneration, a.r.is_societe)
                   /\ Gt(a.r.resultat_net_societe, Zero)

\* C28 witness: a post-compensation profit taxed partly at the normal rate
\* still leaves a dividend in both pipelines
C28_Witness ==
    /\ appel_sasu # << >> /\ appel_eurl # << >>
    /\ params.distribuer_dividendes
    /\ Gt(params.remuneration_nette_cible, Zero)
    /\ Gt(appel_sasu[1].retour.benefice_apres_remuneration, R(IS_SEUIL_REDUIT))
    /\ Gt(appel_sasu[1].retour.dividendes_bruts, Zero)
    /\ Gt(appel_eurl[1].retour.dividendes_bruts, appel_sasu[1].retour.dividendes_bruts)

----------------------------------------------------------------------------
(* What the progressive-dividend-tax option changes                        *)

\* the arguments with only the progressive-dividend-tax option changed
AutreOption == [params EXCEPT !.option_bareme_ir = ~params.option_bareme_ir]

\* the fields of a result that the option leaves alone
ChampsHorsOption(r) ==
    << r.benefice_avant_remuneration, r.remuneration_nette, r.charges_sociales,
       r.remuneration_brute, r.benefice_apres_remuneration, r.is_societe,
       r.resultat_net_societe, r.dividendes_bruts, r.charges_dividendes >>

\* C29: changing only the progressive-dividend-tax option leaves unchanged,
\* in both pipelines, the profit before compensation, net compensation,
\* compensation contributions, gross compensation, profit after
\* compensation, corporate tax, post-tax result, gross dividends and dividend
\* social contributions; when the distribution flag is false it changes no
\* result field at all.
C29_OptionBareme ==
    /\ \A s \in AppelsSasu :
           /\ ChampsHorsOption(s.retour) = ChampsHorsOption(simuler_sasu(AutreOption))
           /\ ~params.distribuer_dividendes => s.retour = simuler_sasu(AutreOption)
    /\ \A e \in AppelsEurl :
           /\ ChampsHorsOption(e.retour) = ChampsHorsOption(simuler_eurl(AutreOption))
           /\ ~params.distribuer_dividendes => e.retour = simuler_eurl(AutreOption)

\* C29 witness: with dividends distributed the option changes the dividend
\* tax and the income tax of both pipelines, and nothing upstream
C29_Witness ==
    /\ appel_sasu # << >> /\ appel_eurl # << >>
    /\ params.distribuer_dividendes
    /\ Gt(appel_sasu[1].retour.dividendes_bruts, Zero)
    /\ appel_sasu[1].retour.impot_dividendes # simuler_sasu(AutreOption).impot_dividendes
    /\ appel_sasu[1].retour.ir_total # simuler_sasu(AutreOption).ir_total
    /\ appel_eurl[1].retour.impot_dividendes # simuler_eurl(AutreOption).impot_dividendes
    /\ appel_eurl[1].retour.dividendes_bruts = simuler_eurl(AutreOption).dividendes_bruts

----------------------------------------------------------------------------
(* Year of a fiscal configuration                                          *)

\* the last constructor call was FiscalConfiguration(...)
AppelConfiguration == DOMAIN arguments = {"year", "tax_rates"}

====
